---- MODULE Spec2Model ----
(***************************************************************************)
(* Model of the two graph reductions of the Tinification repository:       *)
(*   - time-edge accumulation        (src/time_accumulator.py)             *)
(*   - shift-equivalence quotienting (src/ParseXML/1.py)                   *)
(* Each reduction has its own specification over the shared variables:     *)
(*   SpecAcc      accumulate_time_edges on a bounded .aut graph            *)
(*   SpecAccFair  the same, with its steps taken to completion             *)
(*   SpecSE       shift_equivalent on the records of two states            *)
(*   SpecIgn      the same, on states with rebecs of the ignore set        *)
(*   SpecCls      class construction on three states                       *)
(*   SpecQuot     the whole script: classes, merge, and a second run       *)
(*   SpecDup      the same, on transitions with labels and missing ends    *)
(***************************************************************************)
EXTENDS Integers, Sequences, FiniteSets, TLC

VARIABLES
    pc,                  \* position of the running script / function
    lts,                 \* AutLTS: [initial, transitions]
    non_time_edges,      \* accumulate_time_edges locals
    time_out,
    time_keys,           \* insertion order of time_out's keys
    time_in_count,
    time_src_order,
    non_time_in_from,
    entries,
    new_time_edges_list,
    seen_triples,
    todo,                \* remaining (entry, n, v) iterations of the outer loops
    stack,               \* call stack of dfs
    out,                 \* returned transition list
    ts_root,             \* the parsed transitionsystem: [state, transition]
    shift_state,         \* ordered dict: state id -> canonical record
    se_result,           \* what shift_equivalent(first, second) did
    classes,             \* class construction: list of classes
    assigned,
    ci,                  \* position of the loop over state_ids (1-based)
    status,              \* "running", "ok", or the exception that ended the run
    new_ts,              \* the transitionsystem written by merge_shift_equivalent
    second               \* the run of the script on its own output

accVars == <<lts, non_time_edges, time_out, time_keys, time_in_count,
             time_src_order, non_time_in_from, entries, new_time_edges_list,
             seen_triples, todo, stack, out>>

seVars == <<ts_root, shift_state, se_result>>

quotVars == <<classes, assigned, ci, status, new_ts, second>>

vars == <<pc, accVars, seVars, quotVars>>

----------------------------------------------------------------------------
(* Bounds of the accumulator inputs *)
MaxEdges == 3

(* Largest clock / resource value of the compared states *)
MaxTime == 1

(* Bounds of the quotiented graphs *)
MaxStates == 3
MaxTrans == 2

Nodes == {"A", "B", "C"}

(* Python's None where the code returns or stores it for an integer *)
None == -1

(* default of time_src_order.get(x, 1_000_000) *)
NoOrder == 1000000

----------------------------------------------------------------------------
(* Labels.  A label is kept as the pieces the recognizer _time_re looks at: *)
(* the (lower-cased) word, the operator, the digits (None when there are    *)
(* none) and the textual form (spacing / case), which the regex ignores.    *)
TimeLabel(form, n) == [word |-> "time", op |-> "+=", num |-> n, form |-> form]
OtherLabel(name)   == [word |-> name, op |-> "", num |-> None, form |-> "plain"]

(* _is_time: the weight of a time-advance label, None for any other label *)
IsTime(label) ==
    IF label.word = "time" /\ label.op = "+=" /\ label.num # None
    THEN label.num ELSE None

(* f"time +={w}" *)
FormatTime(w) == TimeLabel("canon", w)

InLabels == {TimeLabel("spaced", 1), TimeLabel("upper", 2), OtherLabel("a")}

EdgeChoices == Nodes \X InLabels \X Nodes

(* State names are opaque to the algorithm (only compared for equality),  *)
(* so the header's initial state is one fixed name; the transitions range *)
(* over every list of at most MaxEdges edges, whether or not they touch   *)
(* it.                                                                    *)
InitialNode == "A"

----------------------------------------------------------------------------
(* Sequence helpers *)
Range(s) == {s[i] : i \in 1..Len(s)}

(* sorted(xs, key): stable insertion sort *)
RECURSIVE InsertByKey(_, _, _)
InsertByKey(x, s, key) ==
    IF s = <<>> THEN <<x>>
    ELSE IF key[x] < key[Head(s)] THEN <<x>> \o s
         ELSE <<Head(s)>> \o InsertByKey(x, Tail(s), key)

RECURSIVE SortByKey(_, _)
SortByKey(s, key) ==
    IF s = <<>> THEN <<>>
    ELSE InsertByKey(s[Len(s)], SortByKey(SubSeq(s, 1, Len(s) - 1), key), key)

----------------------------------------------------------------------------
(* reachable_from(initial, edges): forward closure over all transitions *)
RECURSIVE ReachClosure(_, _)
ReachClosure(seen, edges) ==
    LET nxt == {e[3] : e \in {x \in Range(edges) : x[1] \in seen}}
    IN IF nxt \subseteq seen THEN seen ELSE ReachClosure(seen \cup nxt, edges)

reachable_from(initial, edges) == ReachClosure({initial}, edges)

----------------------------------------------------------------------------
(* The partition loop of accumulate_time_edges, one iteration *)
EmptyParts ==
    [non_time_edges   |-> <<>>,
     time_out         |-> [u \in Nodes |-> <<>>],
     time_keys        |-> <<>>,
     time_in_count    |-> [u \in Nodes |-> 0],
     time_src_order   |-> [u \in Nodes |-> NoOrder],
     non_time_in_from |-> [u \in Nodes |-> <<>>]]

PartitionStepDropDup(p, idx, e) ==
    LET u == e[1]  label == e[2]  v == e[3]  n == IsTime(label)
    IN IF n = None
       THEN [p EXCEPT !.non_time_edges =
                          IF e \in Range(@) THEN @ ELSE Append(@, e),
                      !.non_time_in_from[v] = Append(@, u)]
       ELSE [p EXCEPT !.time_out[u] = Append(@, <<n, v>>),
                      !.time_keys = IF u \in Range(@) THEN @ ELSE Append(@, u),
                      !.time_in_count[v] = @ + 1,
                      !.time_src_order[u] = IF @ = NoOrder THEN idx ELSE @]

PartitionStep(p, idx, e) ==
    LET u == e[1]  label == e[2]  v == e[3]  n == IsTime(label)
    IN IF n = None
       THEN [p EXCEPT !.non_time_edges = Append(@, e),
                      !.non_time_in_from[v] = Append(@, u)]
       ELSE [p EXCEPT !.time_out[u] = Append(@, <<n, v>>),
                      !.time_keys = IF u \in Range(@) THEN @ ELSE Append(@, u),
                      !.time_in_count[v] = @ + 1,
                      !.time_src_order[u] = IF @ = NoOrder THEN idx ELSE @]

RECURSIVE PartitionLoop(_, _, _)
PartitionLoop(p, idx, trs) ==
    IF idx >= Len(trs) THEN p
    ELSE PartitionLoop(PartitionStep(p, idx, trs[idx + 1]), idx + 1, trs)

(* the entry filter of lines 130-137 *)
IsEntryAnyReachable(u, initial, reach, nti, tic) == u \in reach

IsEntryUnreachableToo(u, initial, reach, nti, tic) ==
    \/ u = initial
    \/ \E i \in 1..Len(nti[u]) : nti[u][i] \in reach
    \/ tic[u] = 0

IsEntry(u, initial, reach, nti, tic) ==
    /\ u \in reach
    /\ \/ u = initial
       \/ \E i \in 1..Len(nti[u]) : nti[u][i] \in reach
       \/ tic[u] = 0

ComputeEntryList(keys, initial, reach, nti, tic, order) ==
    SortByKey(SelectSeq(keys, LAMBDA u : IsEntry(u, initial, reach, nti, tic)),
              order)

RECURSIVE OuterCallsFirstEdgeOnly(_, _)
OuterCallsFirstEdgeOnly(es, tout) ==
    IF es = <<>> THEN <<>>
    ELSE <<[u |-> Head(es), n |-> tout[Head(es)][1][1],
            v |-> tout[Head(es)][1][2]]>>
         \o OuterCallsFirstEdgeOnly(Tail(es), tout)

(* the outer loops `for u in entries: for n, v in time_out[u]` flattened *)
RECURSIVE OuterCalls(_, _)
OuterCalls(es, tout) ==
    IF es = <<>> THEN <<>>
    ELSE [i \in 1..Len(tout[Head(es)]) |->
              [u |-> Head(es), n |-> tout[Head(es)][i][1],
               v |-> tout[Head(es)][i][2]]]
         \o OuterCalls(Tail(es), tout)

(* one activation of dfs(start, node, acc, seen_nodes, path_nodes, deltas); *)
(* i is the position of the `for n, nxt in outs` loop                       *)
FrameNoSeenNodes(start, node, acc, seen_nodes, path_nodes, deltas) ==
    [start |-> start, node |-> node, acc |-> acc, seen_nodes |-> {},
     path_nodes |-> path_nodes, deltas |-> deltas, i |-> 1]

Frame(start, node, acc, seen_nodes, path_nodes, deltas) ==
    [start |-> start, node |-> node, acc |-> acc, seen_nodes |-> seen_nodes,
     path_nodes |-> path_nodes, deltas |-> deltas, i |-> 1]

ChildAccNoAdd(acc, n) == acc

ChildAcc(acc, n) == acc + n

----------------------------------------------------------------------------
(* the variables of the other reduction, while one of them runs *)
NoResult == [kind |-> "none", eq |-> FALSE, d |-> None]

EmptyTs == [state |-> <<>>, transition |-> <<>>]

NoRun == [status |-> "none", ts_root |-> EmptyTs, new_ts |-> EmptyTs]

QuotIdle ==
    /\ classes = <<>>
    /\ assigned = {}
    /\ ci = 1
    /\ status = "running"
    /\ new_ts = EmptyTs
    /\ second = NoRun

SeIdle ==
    /\ ts_root = EmptyTs
    /\ shift_state = <<>>
    /\ se_result = NoResult
    /\ QuotIdle

AccIdle ==
    /\ lts = [initial |-> InitialNode, transitions |-> <<>>]
    /\ non_time_edges = <<>>
    /\ time_out = EmptyParts.time_out
    /\ time_keys = <<>>
    /\ time_in_count = EmptyParts.time_in_count
    /\ time_src_order = EmptyParts.time_src_order
    /\ non_time_in_from = EmptyParts.non_time_in_from
    /\ entries = <<>>
    /\ new_time_edges_list = <<>>
    /\ seen_triples = {}
    /\ todo = <<>>
    /\ stack = <<>>
    /\ out = <<>>

----------------------------------------------------------------------------
(* SpecAcc: accumulate_time_edges(lts) *)
InitAcc ==
    /\ pc = "acc_start"
    /\ \E n \in 0..MaxEdges : \E t \in [1..n -> EdgeChoices] :
          lts = [initial |-> InitialNode, transitions |-> t]
    /\ non_time_edges = <<>>
    /\ time_out = EmptyParts.time_out
    /\ time_keys = <<>>
    /\ time_in_count = EmptyParts.time_in_count
    /\ time_src_order = EmptyParts.time_src_order
    /\ non_time_in_from = EmptyParts.non_time_in_from
    /\ entries = <<>>
    /\ new_time_edges_list = <<>>
    /\ seen_triples = {}
    /\ todo = <<>>
    /\ stack = <<>>
    /\ out = <<>>
    /\ SeIdle

(* lines 112-126 *)
Partition ==
    /\ pc = "acc_start"
    /\ LET p == PartitionLoop(EmptyParts, 0, lts.transitions)
       IN /\ non_time_edges' = p.non_time_edges
          /\ time_out' = p.time_out
          /\ time_keys' = p.time_keys
          /\ time_in_count' = p.time_in_count
          /\ time_src_order' = p.time_src_order
          /\ non_time_in_from' = p.non_time_in_from
    /\ pc' = "acc_entries"
    /\ UNCHANGED <<seVars, quotVars, lts, entries, new_time_edges_list, seen_triples, todo,
                   stack, out>>

(* lines 128-137 *)
ComputeEntries ==
    /\ pc = "acc_entries"
    /\ LET reach == reachable_from(lts.initial, lts.transitions)
           es == ComputeEntryList(time_keys, lts.initial, reach,
                                  non_time_in_from, time_in_count,
                                  time_src_order)
       IN /\ entries' = es
          /\ todo' = OuterCalls(es, time_out)
    /\ pc' = "acc_dfs"
    /\ UNCHANGED <<seVars, quotVars, lts, non_time_edges, time_out, time_keys, time_in_count,
                   time_src_order, non_time_in_from, new_time_edges_list,
                   seen_triples, stack, out>>

(* lines 181-183: dfs(u, v, n, {u, v}, [u, v], [n]) *)
DfsCall ==
    /\ pc = "acc_dfs"
    /\ stack = <<>>
    /\ todo # <<>>
    /\ LET c == Head(todo)
       IN stack' = <<Frame(c.u, c.v, c.n, {c.u, c.v}, <<c.u, c.v>>, <<c.n>>)>>
    /\ todo' = Tail(todo)
    /\ UNCHANGED <<seVars, quotVars, pc, lts, non_time_edges, time_out, time_keys, time_in_count,
                   time_src_order, non_time_in_from, entries,
                   new_time_edges_list, seen_triples, out>>

DfsTerminalNoSeenCheck ==
    /\ pc = "acc_dfs"
    /\ stack # <<>>
    /\ LET f == stack[Len(stack)]
           triple == <<f.start, f.acc, f.node>>
       IN /\ time_out[f.node] = <<>>
          /\ IF f.node # f.start
             THEN /\ seen_triples' = seen_triples \cup {triple}
                  /\ new_time_edges_list' = Append(new_time_edges_list, triple)
             ELSE UNCHANGED <<seen_triples, new_time_edges_list>>
    /\ stack' = SubSeq(stack, 1, Len(stack) - 1)
    /\ UNCHANGED <<seVars, quotVars, pc, lts, non_time_edges, time_out, time_keys, time_in_count,
                   time_src_order, non_time_in_from, entries, todo, out>>

(* lines 167-174: no outgoing time edge; add_time_edge (lines 142-146) *)
DfsTerminal ==
    /\ pc = "acc_dfs"
    /\ stack # <<>>
    /\ LET f == stack[Len(stack)]
           triple == <<f.start, f.acc, f.node>>
       IN /\ time_out[f.node] = <<>>
          /\ IF f.node # f.start /\ triple \notin seen_triples
             THEN /\ seen_triples' = seen_triples \cup {triple}
                  /\ new_time_edges_list' = Append(new_time_edges_list, triple)
             ELSE UNCHANGED <<seen_triples, new_time_edges_list>>
    /\ stack' = SubSeq(stack, 1, Len(stack) - 1)
    /\ UNCHANGED <<seVars, quotVars, pc, lts, non_time_edges, time_out, time_keys, time_in_count,
                   time_src_order, non_time_in_from, entries, todo, out>>

(* lines 175-178: the next successor is already on the path *)
DfsSkip ==
    /\ pc = "acc_dfs"
    /\ stack # <<>>
    /\ LET f == stack[Len(stack)]
           outs == time_out[f.node]
       IN /\ f.i <= Len(outs)
          /\ outs[f.i][2] \in f.seen_nodes
          /\ stack' = [stack EXCEPT ![Len(stack)].i = @ + 1]
    /\ UNCHANGED <<seVars, quotVars, pc, lts, non_time_edges, time_out, time_keys, time_in_count,
                   time_src_order, non_time_in_from, entries,
                   new_time_edges_list, seen_triples, todo, out>>

(* line 179: recursive call *)
DfsDescend ==
    /\ pc = "acc_dfs"
    /\ stack # <<>>
    /\ LET f == stack[Len(stack)]
           outs == time_out[f.node]
       IN /\ f.i <= Len(outs)
          /\ outs[f.i][2] \notin f.seen_nodes
          /\ LET n == outs[f.i][1]
                 nxt == outs[f.i][2]
             IN stack' = Append([stack EXCEPT ![Len(stack)].i = @ + 1],
                                Frame(f.start, nxt, ChildAcc(f.acc, n),
                                      f.seen_nodes \cup {nxt},
                                      Append(f.path_nodes, nxt),
                                      Append(f.deltas, n)))
    /\ UNCHANGED <<seVars, quotVars, pc, lts, non_time_edges, time_out, time_keys, time_in_count,
                   time_src_order, non_time_in_from, entries,
                   new_time_edges_list, seen_triples, todo, out>>

DfsReturnRecordsNode ==
    /\ pc = "acc_dfs"
    /\ stack # <<>>
    /\ LET f == stack[Len(stack)]
           outs == time_out[f.node]
           triple == <<f.start, f.acc, f.node>>
       IN /\ outs # <<>>
          /\ f.i > Len(outs)
          /\ IF f.node # f.start /\ triple \notin seen_triples
             THEN /\ seen_triples' = seen_triples \cup {triple}
                  /\ new_time_edges_list' = Append(new_time_edges_list, triple)
             ELSE UNCHANGED <<seen_triples, new_time_edges_list>>
    /\ stack' = SubSeq(stack, 1, Len(stack) - 1)
    /\ UNCHANGED <<seVars, quotVars, pc, lts, non_time_edges, time_out, time_keys, time_in_count,
                   time_src_order, non_time_in_from, entries, todo, out>>

(* the for loop of line 175 is exhausted: dfs returns *)
DfsReturn ==
    /\ pc = "acc_dfs"
    /\ stack # <<>>
    /\ LET f == stack[Len(stack)]
           outs == time_out[f.node]
       IN /\ outs # <<>>
          /\ f.i > Len(outs)
    /\ stack' = SubSeq(stack, 1, Len(stack) - 1)
    /\ UNCHANGED <<seVars, quotVars, pc, lts, non_time_edges, time_out, time_keys, time_in_count,
                   time_src_order, non_time_in_from, entries,
                   new_time_edges_list, seen_triples, todo, out>>

(* lines 185-189 *)
BuildOut(nte, ntl) ==
    nte \o [i \in 1..Len(ntl) |->
               <<ntl[i][1], FormatTime(ntl[i][2]), ntl[i][3]>>]

EmitOut ==
    /\ pc = "acc_dfs"
    /\ stack = <<>>
    /\ todo = <<>>
    /\ out' = BuildOut(non_time_edges, new_time_edges_list)
    /\ pc' = "acc_done"
    /\ UNCHANGED <<seVars, quotVars, lts, non_time_edges, time_out, time_keys, time_in_count,
                   time_src_order, non_time_in_from, entries,
                   new_time_edges_list, seen_triples, todo, stack>>

NextAcc ==
    \/ Partition
    \/ ComputeEntries
    \/ DfsCall
    \/ DfsTerminal
    \/ DfsSkip
    \/ DfsDescend
    \/ DfsReturn
    \/ EmitOut

SpecAcc == InitAcc /\ [][NextAcc]_vars

(* The function runs alone and to completion: a step that can be taken is *)
(* eventually taken.                                                      *)
SpecAccFair == InitAcc /\ [][NextAcc]_vars /\ WF_vars(NextAcc)

----------------------------------------------------------------------------
(* Shift-equivalence (src/ParseXML/1.py).                                  *)
(* Python values of mixed type (int, str, None) are records [t, v] so that *)
(* they can be compared: an int carries its value in v, every other value  *)
(* has v = 0.                                                              *)
PyInt(n)  == [t |-> "int", v |-> n]
PyNone    == [t |-> "none", v |-> 0]
StrInf    == [t |-> "infinity", v |-> 0]     \* the string 'infinity'
StrNull   == [t |-> "null", v |-> 0]         \* the string 'null'
NumStr(n) == [t |-> "numstr", v |-> n]       \* a string of digits, as read

IGNORE_REBECS == {"meaningless"}

(* to_int: int(v), or v itself when int() raises TypeError / ValueError *)
to_int(v) == IF v.t = "numstr" THEN PyInt(v.v) ELSE v

(* massage_res *)
massage_res(v) == IF v \in {StrNull, PyNone} THEN PyNone ELSE to_int(v)

(* str.strip() of a text node kept as [txt, pad] *)
Strip(text) == [txt |-> text.txt, pad |-> FALSE]

(* parse_msg *)
parse_msg(rname, m) ==
    [sid |-> m.sender, rid |-> rname, body |-> Strip(m.text),
     ar |-> to_int(m.arrival), dl |-> to_int(m.deadline)]

(* an insertion-ordered dict as a sequence of [k, val]: d[k] = val *)
DictKeys(d) == [i \in 1..Len(d) |-> d[i].k]

DictHas(d, k) == \E i \in 1..Len(d) : d[i].k = k

DictGet(d, k) == d[CHOOSE i \in 1..Len(d) : d[i].k = k].val

DictPut(d, k, val) ==
    IF DictHas(d, k)
    THEN [i \in 1..Len(d) |-> IF d[i].k = k THEN [k |-> k, val |-> val] ELSE d[i]]
    ELSE Append(d, [k |-> k, val |-> val])

(* lines 360-385: the per-rebec records of one state *)
RECURSIVE BuildRebecs(_, _)
BuildRebecs(rebecs, acc) ==
    IF rebecs = <<>> THEN acc
    ELSE LET rebec == Head(rebecs)
             msgs == [i \in 1..Len(rebec.queue) |->
                         parse_msg(rebec.name, rebec.queue[i])]
         IN IF rebec.name \in IGNORE_REBECS
            THEN BuildRebecs(Tail(rebecs), acc)
            ELSE BuildRebecs(Tail(rebecs),
                     DictPut(acc, rebec.name,
                             [pc |-> rebec.pc,
                              res |-> massage_res(rebec.res),
                              vars |-> rebec.vars,
                              bag_size |-> Len(msgs),
                              messages |-> msgs]))

(* lines 346-387: shift_state, states without a visible rebec dropped *)
RECURSIVE BuildShiftState(_, _)
BuildShiftState(states, acc) ==
    IF states = <<>> THEN acc
    ELSE LET st == Head(states)
             visible == SelectSeq(st.rebec,
                                  LAMBDA r : r.name \notin IGNORE_REBECS)
         IN IF visible = <<>>
            THEN BuildShiftState(Tail(states), acc)
            ELSE BuildShiftState(Tail(states),
                     DictPut(acc, st.id,
                             [now |-> to_int(visible[1].now),
                              rebecs |-> BuildRebecs(st.rebec, <<>>)]))

(* add_delta; a str other than 'infinity' makes value + delta raise *)
TypeError == [t |-> "TypeError", v |-> 0]

add_delta(value, delta) ==
    IF value \in {PyNone, StrInf} THEN value
    ELSE IF value.t = "int" THEN PyInt(value.v + delta)
    ELSE TypeError

(* msgs_to_multiset: the Counter of the shifted keys, key -> count *)
MsgKey(m, delta) ==
    <<m.sid, m.rid, m.body, add_delta(m.ar, delta), add_delta(m.dl, delta)>>

msgs_in_queue_order(msgs, delta) ==
    [i \in 1..Len(msgs) |-> MsgKey(msgs[i], delta)]

msgs_to_multiset(msgs, delta) ==
    LET keys == [i \in 1..Len(msgs) |-> MsgKey(msgs[i], delta)]
    IN [key \in Range(keys) |-> Cardinality({i \in 1..Len(keys) : keys[i] = key})]

MultisetRaises(msgs, delta) ==
    \E i \in 1..Len(msgs) :
        TypeError \in {add_delta(msgs[i].ar, delta), add_delta(msgs[i].dl, delta)}

(* res_equal: "True", "False", or "TypeError" when rb + delta raises *)
res_equal_or_unshifted(ra, rb, delta) ==
    IF ra = PyNone /\ rb = PyNone THEN "True"
    ELSE IF ra = PyNone \/ rb = PyNone THEN "False"
    ELSE IF rb.t # "int" THEN "TypeError"
    ELSE IF ra = PyInt(rb.v + delta) \/ ra = rb THEN "True" ELSE "False"

res_equal(ra, rb, delta) ==
    IF ra = PyNone /\ rb = PyNone THEN "True"
    ELSE IF ra = PyNone \/ rb = PyNone THEN "False"
    ELSE IF rb.t # "int" THEN "TypeError"
    ELSE IF ra = PyInt(rb.v + delta) THEN "True" ELSE "False"

(* what a call of shift_equivalent does: return (eq, d) or raise *)
Returns(eq, d) == [kind |-> "return", eq |-> eq, d |-> d]
Raises == [kind |-> "raise", eq |-> FALSE, d |-> None]

(* lines 152-170: one iteration of `for r in rebecsA`; "ok" when every    *)
(* check passes                                                           *)
CheckRebec(RA, RB, delta) ==
    IF RA.vars # RB.vars THEN "False"
    ELSE IF RA.pc # RB.pc THEN "False"
    ELSE IF RA.bag_size # RB.bag_size THEN "False"
    ELSE LET re == res_equal(RA.res, RB.res, delta)
         IN IF re = "TypeError" THEN "TypeError"
            ELSE IF re = "False" THEN "False"
            ELSE IF MultisetRaises(RA.messages, 0)
                    \/ MultisetRaises(RB.messages, delta) THEN "TypeError"
            ELSE IF msgs_to_multiset(RA.messages, 0)
                      # msgs_to_multiset(RB.messages, delta) THEN "False"
            ELSE "ok"

RECURSIVE CheckRebecs(_, _, _, _)
CheckRebecs(rebecsA, rebecsB, delta, i) ==
    IF i > Len(rebecsA) THEN Returns(TRUE, delta)
    ELSE LET c == CheckRebec(rebecsA[i].val, DictGet(rebecsB, rebecsA[i].k), delta)
         IN IF c = "False" THEN Returns(FALSE, None)
            ELSE IF c = "TypeError" THEN Raises
            ELSE CheckRebecs(rebecsA, rebecsB, delta, i + 1)

SameActorsSubset(rebecsA, rebecsB) ==
    Range(DictKeys(rebecsA)) \subseteq Range(DictKeys(rebecsB))

SameActors(rebecsA, rebecsB) ==
    Range(DictKeys(rebecsA)) = Range(DictKeys(rebecsB))

(* lines 142-172, reached with delta >= 0 *)
ShiftEquivalentBody(stateA, stateB, delta) ==
    IF stateA.now.v # stateB.now.v + delta THEN Returns(FALSE, None)
    ELSE IF ~SameActors(stateA.rebecs, stateB.rebecs) THEN Returns(FALSE, None)
    ELSE CheckRebecs(stateA.rebecs, stateB.rebecs, delta, 1)

(* shift_equivalent: lines 137-140 swap the operands when delta < 0 *)
shift_equivalent(stateA, stateB) ==
    LET delta == stateA.now.v - stateB.now.v
    IN IF delta < 0
       THEN ShiftEquivalentBody(stateB, stateA, stateB.now.v - stateA.now.v)
       ELSE ShiftEquivalentBody(stateA, stateB, delta)

----------------------------------------------------------------------------
(* State ids: StateId(n) is the string f"{n}_0" *)
StateId(n) == <<n, 0>>

(* an attribute the element does not carry (dict.get gives None) *)
NoId == <<>>

(* the order of sorted() on the strings "n_0": character by character,    *)
(* '_' after every digit ("10_0" < "1_0" < "2_0"); n < 100                 *)
IdSortKey(id) ==
    IF id[1] < 10 THEN id[1] * 100 + 99
    ELSE (id[1] \div 10) * 100 + (id[1] % 10)

RECURSIVE SortedIds(_)
SortedIds(S) ==
    IF S = {} THEN <<>>
    ELSE LET m == CHOOSE x \in S : \A y \in S : IdSortKey(x) <= IdSortKey(y)
         IN <<m>> \o SortedIds(S \ {m})

(* Class construction, lines 409-427.  A class is a list of members; the   *)
(* representative is the bare id, a later member the string                *)
(* f"{sid2}  (Δ={Δ})", from which split()[0] gives the id back.            *)
Member(sid, d) == [sid |-> sid, delta |-> d]

SplitFirst(m) == m.sid

(* lines 419-425: the scan of the later ids against the representative *)
RECURSIVE ScanLater(_, _, _, _, _, _)
ScanLater(ss, sid, ids, j, cls, asg) ==
    IF j > Len(ids) THEN [cls |-> cls, assigned |-> asg, raised |-> FALSE]
    ELSE IF ids[j] \in asg THEN ScanLater(ss, sid, ids, j + 1, cls, asg)
    ELSE LET r == shift_equivalent(DictGet(ss, sid), DictGet(ss, ids[j]))
         IN IF r.kind = "raise"
            THEN [cls |-> cls, assigned |-> asg, raised |-> TRUE]
            ELSE IF r.eq
            THEN ScanLater(ss, sid, ids, j + 1,
                           Append(cls, Member(ids[j], r.d)), asg \cup {ids[j]})
            ELSE ScanLater(ss, sid, ids, j + 1, cls, asg)

(* lines 413-427: the whole loop from position i *)
RECURSIVE ClassesLoop(_, _, _, _)
ClassesLoop(ss, i, cs, asg) ==
    LET ids == DictKeys(ss)
    IN IF i > Len(ids) THEN [classes |-> cs, assigned |-> asg, raised |-> FALSE]
       ELSE IF ids[i] \in asg THEN ClassesLoop(ss, i + 1, cs, asg)
       ELSE LET r == ScanLater(ss, ids[i], ids, i + 1,
                               <<Member(ids[i], None)>>, asg \cup {ids[i]})
            IN IF r.raised
               THEN [classes |-> cs, assigned |-> r.assigned, raised |-> TRUE]
               ELSE ClassesLoop(ss, i + 1, Append(cs, r.cls), r.assigned)

(* merge_shift_equivalent, lines 194-198: rep_map *)
RECURSIVE PutMembers(_, _, _)
PutMembers(cls, rep, rm) ==
    IF cls = <<>> THEN rm
    ELSE PutMembers(Tail(cls), rep, DictPut(rm, SplitFirst(Head(cls)), rep))

RECURSIVE BuildRepMap(_, _)
BuildRepMap(cs, rm) ==
    IF cs = <<>> THEN rm
    ELSE BuildRepMap(Tail(cs),
                     PutMembers(Head(cs), SplitFirst(Head(cs)[1]), rm))

(* line 208: id_to_state, the last state with the id wins; the states are  *)
(* the objects of ts_root, kept here as positions in ts_root.state         *)
IdToStateIndex(states, id) ==
    CHOOSE i \in 1..Len(states) :
        /\ states[i].id = id
        /\ \A j \in (i + 1)..Len(states) : states[j].id # id

(* lines 209-216: one state per class, in rep_map order *)
MergedStateIndexesAllMembers(states, rm) ==
    [j \in 1..Len(rm) |-> IdToStateIndex(states, rm[j].k)]

MergedStateIndexes(states, rm) ==
    LET reps == SelectSeq(rm, LAMBDA e : e.val = e.k)
    IN [j \in 1..Len(reps) |-> IdToStateIndex(states, reps[j].k)]

(* lines 229-235 *)
TouchesIgnoredOwnerOnly(tr) ==
    tr.ms.has /\ tr.ms.owner \in IGNORE_REBECS

TouchesIgnored(tr) ==
    tr.ms.has /\ (tr.ms.sender \in IGNORE_REBECS \/ tr.ms.owner \in IGNORE_REBECS)

(* lines 239-242 *)
TrTarget(tr) == IF tr.target # NoId THEN tr.target ELSE tr.destination

(* lines 257-275: the copy with its endpoints patched *)
Rewired(tr, src_rep, tgt_rep) ==
    [tr EXCEPT !.source = IF @ # NoId THEN src_rep ELSE @,
               !.target = IF @ # NoId THEN tgt_rep ELSE @,
               !.destination =
                   IF tr.target = NoId /\ @ # NoId THEN tgt_rep ELSE @]

(* lines 225-277: the loop over the transitions; rep_map[src] raises      *)
(* KeyError for an id that is no key                                      *)
RECURSIVE RewireLoop(_, _, _, _)
RewireLoop(trs, i, rm, uniq) ==
    IF i > Len(trs) THEN [uniq |-> uniq, status |-> "ok"]
    ELSE LET tr == trs[i]
             src == tr.source
             tgt == TrTarget(tr)
         IN IF TouchesIgnored(tr) THEN RewireLoop(trs, i + 1, rm, uniq)
            ELSE IF src = NoId \/ tgt = NoId
            THEN RewireLoop(trs, i + 1, rm, uniq)
            ELSE IF ~DictHas(rm, src) \/ ~DictHas(rm, tgt)
            THEN [uniq |-> uniq, status |-> "KeyError"]
            ELSE LET src_rep == DictGet(rm, src)
                     tgt_rep == DictGet(rm, tgt)
                     key == <<src_rep, tgt_rep, tr.label>>
                 IN IF DictHas(uniq, key)
                    THEN RewireLoop(trs, i + 1, rm, uniq)
                    ELSE RewireLoop(trs, i + 1, rm,
                             DictPut(uniq, key, Rewired(tr, src_rep, tgt_rep)))

(* lines 285-297: the ids collected from '@source' and '@destination' *)
EndpointIds(trs) ==
    ({trs[i].source : i \in 1..Len(trs)}
        \cup {trs[i].destination : i \in 1..Len(trs)}) \ {NoId}

(* lines 300-303 *)
StateMapping(trs) ==
    LET sorted_states == SortedIds(EndpointIds(trs))
    IN [i \in 1..Len(sorted_states) |->
           [k |-> sorted_states[i], val |-> StateId(i)]]

MapId(mapping, id) == IF DictHas(mapping, id) THEN DictGet(mapping, id) ELSE id

(* lines 312-316 *)
Renumbered(tr, mapping) ==
    [tr EXCEPT !.source = MapId(mapping, @),
               !.destination = IF @ # NoId THEN MapId(mapping, @) ELSE @]

(* merge_shift_equivalent(ts_root, classes): the status, ts_root after    *)
(* the call (the states of new_ts are ts_root's own objects, so their ids *)
(* change in both) and the new_ts that is written.  xmltodict gives no    *)
(* 'transition' key when the document has no transition element, so line *)
(* 226 raises KeyError for an empty list.                                 *)
Merge(ts, cs) ==
    LET rm == BuildRepMap(cs, <<>>)
        idxs == MergedStateIndexes(ts.state, rm)
        rw == RewireLoop(ts.transition, 1, rm, <<>>)
        trs == [i \in 1..Len(rw.uniq) |-> rw.uniq[i].val]
        mapping == StateMapping(trs)
        renamed == [i \in 1..Len(ts.state) |->
                       IF i \in Range(idxs)
                       THEN [ts.state[i] EXCEPT !.id = MapId(mapping, @)]
                       ELSE ts.state[i]]
    IN IF ts.transition = <<>> \/ rw.status = "KeyError"
       THEN [status |-> "KeyError", ts_root |-> ts, new_ts |-> EmptyTs]
       ELSE [status |-> "ok",
             ts_root |-> [ts EXCEPT !.state = renamed],
             new_ts |-> [state |-> [j \in 1..Len(idxs) |-> renamed[idxs[j]]],
                         transition |->
                             [i \in 1..Len(trs) |-> Renumbered(trs[i], mapping)]]]

(* the whole script (lines 341-440) on a transitionsystem; a document     *)
(* without a state element has no 'state' key and line 349 raises         *)
RunScript(ts) ==
    LET ss == BuildShiftState(ts.state, <<>>)
        c == ClassesLoop(ss, 1, <<>>, {})
    IN IF ts.state = <<>>
       THEN [status |-> "KeyError", ts_root |-> ts, new_ts |-> EmptyTs]
       ELSE IF c.raised
       THEN [status |-> "TypeError", ts_root |-> ts, new_ts |-> EmptyTs]
       ELSE Merge(ts, c.classes)


(* Inputs of SpecSE: two states as the reader meets them in the XML.      *)
(* Rebec "a" varies in its resource and queue, rebec "b" in pc and locals.*)
Times == 0..MaxTime

RawRes == {PyNone, StrNull, StrInf} \cup {NumStr(t) : t \in Times}

RawMsg(t) ==
    [sender |-> "b", text |-> [txt |-> "m", pad |-> TRUE],
     arrival |-> NumStr(t), deadline |-> StrInf]

RawQueues ==
    {<<>>} \cup {<<RawMsg(t)>> : t \in {0, 1}}
           \cup {<<RawMsg(t), RawMsg(u)>> : t \in {0, 1}, u \in {0, 1}}

RawRebec(name, now, pcv, res, vs, queue) ==
    [name |-> name, now |-> NumStr(now), pc |-> pcv, res |-> res,
     vars |-> vs, queue |-> queue]

RebecA(now) == {RawRebec("a", now, "p", r, [x |-> "0"], q) :
                   r \in RawRes, q \in RawQueues}

RebecB(now) == {RawRebec("b", now, c[1], PyNone, [x |-> c[2]], <<>>) :
                   c \in {<<"p", "0">>, <<"q", "0">>, <<"p", "1">>}}

RebecLists(now) ==
    {<<a>> : a \in RebecA(now)} \cup {<<b>> : b \in RebecB(now)}
    \cup {<<a, b>> : a \in RebecA(now), b \in RebecB(now)}
    \cup {<<b, a>> : a \in RebecA(now), b \in RebecB(now)}

RawStates(id) ==
    UNION {{[id |-> id, rebec |-> rs] : rs \in RebecLists(now)} : now \in Times}

InitSE ==
    /\ pc = "se_start"
    /\ \E A \in RawStates(StateId(1)), B \in RawStates(StateId(2)) :
          ts_root = [state |-> <<A, B>>, transition |-> <<>>]
    /\ shift_state = <<>>
    /\ se_result = NoResult
    /\ QuotIdle
    /\ AccIdle

(* lines 346-387 *)
BuildSE ==
    /\ pc = "se_start"
    /\ shift_state' = BuildShiftState(ts_root.state, <<>>)
    /\ pc' = "se_built"
    /\ UNCHANGED <<accVars, quotVars, ts_root, se_result>>

(* line 422: shift_equivalent(shift_state[sid], shift_state[sid2]) *)
CompareSE ==
    /\ pc = "se_built"
    /\ Len(shift_state) = 2
    /\ se_result' = shift_equivalent(shift_state[1].val, shift_state[2].val)
    /\ pc' = "se_done"
    /\ UNCHANGED <<accVars, quotVars, ts_root, shift_state>>

NextSE ==
    \/ BuildSE
    \/ CompareSE

SpecSE == InitSE /\ [][NextSE]_vars

----------------------------------------------------------------------------
(* Inputs of SpecIgn: two states with the visible rebec "a" and, before   *)
(* or after it or not at all, a rebec of the ignore set whose pc,         *)
(* resource, clock, locals and queue vary one at a time.                  *)
IgnoredRebecs ==
    {RawRebec("meaningless", 0, "p", PyNone, [x |-> "0"], <<>>),
     RawRebec("meaningless", 0, "q", PyNone, [x |-> "0"], <<>>),
     RawRebec("meaningless", 0, "p", NumStr(1), [x |-> "0"], <<>>),
     RawRebec("meaningless", 0, "p", StrInf, [x |-> "0"], <<>>),
     RawRebec("meaningless", 1, "p", PyNone, [x |-> "0"], <<>>),
     RawRebec("meaningless", 0, "p", PyNone, [x |-> "1"], <<>>),
     RawRebec("meaningless", 0, "p", PyNone, [x |-> "0"], <<RawMsg(0)>>)}

VisibleRebecs ==
    {RawRebec("a", now, "p", r, [x |-> "0"], <<>>) :
        now \in Times, r \in {PyNone, NumStr(0), StrInf}}

IgnRebecLists ==
    {<<a>> : a \in VisibleRebecs}
    \cup {<<g, a>> : g \in IgnoredRebecs, a \in VisibleRebecs}
    \cup {<<a, g>> : g \in IgnoredRebecs, a \in VisibleRebecs}

InitIgn ==
    /\ pc = "se_start"
    /\ \E ra \in IgnRebecLists, rb \in IgnRebecLists :
          ts_root = [state |-> <<[id |-> StateId(1), rebec |-> ra],
                                 [id |-> StateId(2), rebec |-> rb]>>,
                     transition |-> <<>>]
    /\ shift_state = <<>>
    /\ se_result = NoResult
    /\ QuotIdle
    /\ AccIdle

SpecIgn == InitIgn /\ [][NextSE]_vars

----------------------------------------------------------------------------
(* Inputs of SpecQuot: states "1_0" .. "n_0" in document order, each with *)
(* one of a few rebec lists, and at most MaxTrans transitions between ids *)
(* "1_0" .. "MaxStates_0" (an id beyond n is a state the graph lacks).    *)
QBodies ==
    {<<RawRebec("a", 0, "p", NumStr(0), [x |-> "0"], <<>>)>>,
     <<RawRebec("a", 1, "p", NumStr(1), [x |-> "0"], <<>>)>>,
     <<RawRebec("a", 1, "p", NumStr(0), [x |-> "0"], <<>>)>>,
     <<RawRebec("meaningless", 0, "p", PyNone, [x |-> "0"], <<>>)>>}

QIds == {StateId(i) : i \in 1..MaxStates}

NoMs == [has |-> FALSE, sender |-> "", owner |-> ""]
Ms(sender, owner) == [has |-> TRUE, sender |-> sender, owner |-> owner]

(* <transition source destination> or <transition source target>, with an *)
(* optional <messageserver sender owner> child                             *)
DestTr(s, t, ms) ==
    [source |-> s, target |-> NoId, destination |-> t, label |-> "", ms |-> ms]
TargetTr(s, t, ms) ==
    [source |-> s, target |-> t, destination |-> NoId, label |-> "", ms |-> ms]

QTransChoices ==
    {DestTr(s, t, ms) : s \in QIds, t \in QIds,
                        ms \in {NoMs, Ms("a", "meaningless"), Ms("meaningless", "a")}}
    \cup {TargetTr(s, t, NoMs) : s \in QIds, t \in QIds}

InitQuot ==
    /\ pc = "q_start"
    /\ \E n \in 1..MaxStates, m \in 0..MaxTrans :
          \E bodies \in [1..n -> QBodies], trs \in [1..m -> QTransChoices] :
              ts_root = [state |-> [i \in 1..n |->
                                       [id |-> StateId(i), rebec |-> bodies[i]]],
                         transition |-> trs]
    /\ shift_state = <<>>
    /\ se_result = NoResult
    /\ QuotIdle
    /\ AccIdle

(* lines 346-387 *)
BuildQ ==
    /\ pc = "q_start"
    /\ shift_state' = BuildShiftState(ts_root.state, <<>>)
    /\ pc' = "q_classes"
    /\ UNCHANGED <<accVars, quotVars, ts_root, se_result>>

(* lines 413-415: the id is already in a class *)
ClassSkip ==
    /\ pc = "q_classes"
    /\ ci <= Len(shift_state)
    /\ shift_state[ci].k \in assigned
    /\ ci' = ci + 1
    /\ UNCHANGED <<accVars, seVars, pc, classes, assigned, status, new_ts, second>>

(* lines 416-427: a new class with the id as representative *)
ClassStep ==
    /\ pc = "q_classes"
    /\ ci <= Len(shift_state)
    /\ shift_state[ci].k \notin assigned
    /\ LET sid == shift_state[ci].k
           r == ScanLater(shift_state, sid, DictKeys(shift_state), ci + 1,
                          <<Member(sid, None)>>, assigned \cup {sid})
       IN /\ assigned' = r.assigned
          /\ IF r.raised
             THEN /\ status' = "TypeError"
                  /\ pc' = "q_done"
                  /\ UNCHANGED <<classes, ci>>
             ELSE /\ classes' = Append(classes, r.cls)
                  /\ ci' = ci + 1
                  /\ UNCHANGED <<status, pc>>
    /\ UNCHANGED <<accVars, seVars, new_ts, second>>

(* line 440: merge_shift_equivalent(ts, classes) *)
MergeQ ==
    /\ pc = "q_classes"
    /\ ci > Len(shift_state)
    /\ LET r == Merge(ts_root, classes)
       IN /\ status' = r.status
          /\ ts_root' = r.ts_root
          /\ new_ts' = r.new_ts
    /\ pc' = "q_done"
    /\ UNCHANGED <<accVars, shift_state, se_result, classes, assigned, ci, second>>

(* the script run again on the file it wrote *)
SecondPass ==
    /\ pc = "q_done"
    /\ status = "ok"
    /\ second' = RunScript(new_ts)
    /\ pc' = "q_second"
    /\ UNCHANGED <<accVars, seVars, classes, assigned, ci, status, new_ts>>

NextQuot ==
    \/ BuildQ
    \/ ClassSkip
    \/ ClassStep
    \/ MergeQ
    \/ SecondPass

SpecQuot == InitQuot /\ [][NextQuot]_vars

----------------------------------------------------------------------------
(* Inputs of SpecCls: class construction alone (lines 346-427) on three   *)
(* states with one rebec each, whose clock, resource (absent, 'infinity', *)
(* 0, or equal to the clock) and queue (empty, or one message arriving at *)
(* the clock) vary, so that chains of shifted copies with different       *)
(* offsets occur.                                                         *)
ClsTimes == 0..(MaxTime + 1)

ClsBodiesAt(now) ==
    {<<RawRebec("a", now, "p", r, [x |-> "0"], q)>> :
        r \in {PyNone, StrInf, NumStr(0), NumStr(now)},
        q \in {<<>>, <<RawMsg(now)>>}}

ClsBodies == UNION {ClsBodiesAt(now) : now \in ClsTimes}

InitCls ==
    /\ pc = "q_start"
    /\ \E bodies \in [1..3 -> ClsBodies] :
          ts_root = [state |-> [i \in 1..3 |->
                                   [id |-> StateId(i), rebec |-> bodies[i]]],
                     transition |-> <<>>]
    /\ shift_state = <<>>
    /\ se_result = NoResult
    /\ QuotIdle
    /\ AccIdle

NextCls ==
    \/ BuildQ
    \/ ClassSkip
    \/ ClassStep

SpecCls == InitCls /\ [][NextCls]_vars

----------------------------------------------------------------------------
(* accumulate_time_edges as a function of its argument: the same steps as *)
(* the actions of SpecAcc, run to the end.  acc is the pair of            *)
(* new_time_edges_list and seen_triples.                                  *)

(* add_time_edge, lines 142-146, behind the test of line 171 *)
add_time_edge(acc, triple) ==
    IF triple \in acc.seen_triples THEN acc
    ELSE [new_time_edges_list |-> Append(acc.new_time_edges_list, triple),
          seen_triples |-> acc.seen_triples \cup {triple}]

(* dfs, lines 165-179, from position i of the loop over outs *)
RECURSIVE dfs(_, _, _, _, _, _, _)
dfs(start, node, w, seen_nodes, i, tout, acc) ==
    LET outs == tout[node]
    IN IF outs = <<>>
       THEN IF node # start THEN add_time_edge(acc, <<start, w, node>>) ELSE acc
       ELSE IF i > Len(outs) THEN acc
       ELSE LET n == outs[i][1]
                nxt == outs[i][2]
            IN IF nxt \in seen_nodes
               THEN dfs(start, node, w, seen_nodes, i + 1, tout, acc)
               ELSE dfs(start, node, w, seen_nodes, i + 1, tout,
                        dfs(start, nxt, ChildAcc(w, n), seen_nodes \cup {nxt},
                            1, tout, acc))

(* lines 181-183 *)
RECURSIVE RunCalls(_, _, _)
RunCalls(calls, tout, acc) ==
    IF calls = <<>> THEN acc
    ELSE LET c == Head(calls)
         IN RunCalls(Tail(calls), tout,
                     dfs(c.u, c.v, c.n, {c.u, c.v}, 1, tout, acc))

(* lines 103-189 *)
accumulate_time_edges(l) ==
    LET p == PartitionLoop(EmptyParts, 0, l.transitions)
        reach == reachable_from(l.initial, l.transitions)
        es == ComputeEntryList(p.time_keys, l.initial, reach,
                               p.non_time_in_from, p.time_in_count,
                               p.time_src_order)
        acc == RunCalls(OuterCalls(es, p.time_out), p.time_out,
                        [new_time_edges_list |-> <<>>, seen_triples |-> {}])
    IN BuildOut(p.non_time_edges, acc.new_time_edges_list)

----------------------------------------------------------------------------
(* Reference definitions over the input graph, used to state the claims *)
TimeTriples(trs) ==
    {<<e[1], IsTime(e[2]), e[3]>> : e \in {x \in Range(trs) : IsTime(x[2]) # None}}

NonTimeInput(trs) == SelectSeq(trs, LAMBDA e : IsTime(e[2]) = None)

(* <<u, w, v>> for every sequence of 1..k+1 consecutive time edges u ~> v of *)
(* total weight w                                                            *)
RECURSIVE WalkTriples(_, _, _)
WalkTriples(E, W, k) ==
    IF k = 0 THEN W
    ELSE WalkTriples(E,
                     W \cup {<<p[1][1], p[1][2] + p[2][2], p[2][3]>> :
                                p \in {q \in W \X E : q[1][3] = q[2][1]}},
                     k - 1)

InputWalks ==
    LET E == TimeTriples(lts.transitions)
    IN WalkTriples(E, E, Len(lts.transitions))

(* the accumulated part of the returned list, as (source, weight, target) *)
AccumulatedOut ==
    LET k == Len(NonTimeInput(lts.transitions))
    IN [i \in 1..(Len(out) - k) |->
           <<out[k + i][1], IsTime(out[k + i][2]), out[k + i][3]>>]

(* C1: every accumulated time edge (u, w, v), while it is collected and in *)
(* the returned list, is backed by a sequence of consecutive time-advance   *)
(* transitions of the input from u to v whose weights sum to exactly w.     *)
C1_Conservation ==
    /\ \A t \in Range(new_time_edges_list) : t \in InputWalks
    /\ pc = "acc_done" =>
          /\ Len(out) >= Len(NonTimeInput(lts.transitions))
          /\ \A t \in Range(AccumulatedOut) : t \in InputWalks

C1_Witness ==
    /\ pc = "acc_done"
    /\ \E i \in 1..Len(out) :
          /\ IsTime(out[i][2]) = 3
          /\ <<out[i][1], 3, out[i][3]>> \notin TimeTriples(lts.transitions)

(* C2: the returned list starts with exactly the input's non-time          *)
(* transitions, unchanged and in their original order, followed by the     *)
(* accumulated time edges and nothing else.                                *)
C2_NonTimePassThrough ==
    pc = "acc_done" =>
        LET nt == NonTimeInput(lts.transitions)
        IN /\ Len(out) = Len(nt) + Len(new_time_edges_list)
           /\ SubSeq(out, 1, Len(nt)) = nt
           /\ \A i \in 1..Len(new_time_edges_list) :
                 /\ out[Len(nt) + i][1] = new_time_edges_list[i][1]
                 /\ out[Len(nt) + i][3] = new_time_edges_list[i][3]
                 /\ IsTime(out[Len(nt) + i][2]) = new_time_edges_list[i][2]
                 /\ IsTime(out[Len(nt) + i][2]) # None

C2_Witness ==
    /\ pc = "acc_done"
    /\ Len(lts.transitions) = 3
    /\ Len(NonTimeInput(lts.transitions)) = 2
    /\ lts.transitions[1] = lts.transitions[3]
    /\ IsTime(lts.transitions[2][2]) # None
    /\ Len(out) = 3

(* C9: the input is a chain a -(w1)-> b -(w2)-> c of time edges from the   *)
(* initial state a, b has no other edge and c no outgoing time edge        *)
ChainScenario(a, b, c, w1, w2) ==
    /\ a # b /\ b # c /\ a # c
    /\ lts.initial = a
    /\ \E i, j \in 1..Len(lts.transitions) :
          /\ i # j
          /\ lts.transitions[i][1] = a /\ lts.transitions[i][3] = b
          /\ IsTime(lts.transitions[i][2]) = w1
          /\ lts.transitions[j][1] = b /\ lts.transitions[j][3] = c
          /\ IsTime(lts.transitions[j][2]) = w2
          /\ \A k \in 1..Len(lts.transitions) :
                k \notin {i, j} =>
                   /\ lts.transitions[k][1] # b
                   /\ lts.transitions[k][3] # b
                   /\ IsTime(lts.transitions[k][2]) = None

IsChain == \E a, b, c \in Nodes, w1, w2 \in 0..2 : ChainScenario(a, b, c, w1, w2)

----------------------------------------------------------------------------
(* Claims about shift_equivalent, over the two records SpecSE compares *)
recA == shift_state[1].val
recB == shift_state[2].val

Compared == pc = "se_done"

ResOf(rec, r) == DictGet(rec.rebecs, r).res

CommonActors == Range(DictKeys(recA.rebecs)) \cap Range(DictKeys(recB.rebecs))

(* C4: symmetry: when shift_equivalent(A, B) returns (True, d), then        *)
(* shift_equivalent(B, A) returns (True, d) with the same d.                *)
C4_Symmetry ==
    (Compared /\ se_result.kind = "return" /\ se_result.eq) =>
        shift_equivalent(recB, recA) = se_result

C4_Witness ==
    /\ Compared
    /\ se_result = Returns(TRUE, 0)
    /\ DictKeys(recA.rebecs) = <<"a", "b">>
    /\ DictKeys(recB.rebecs) = <<"b", "a">>
    /\ DictGet(recA.rebecs, "a").bag_size = 2
    /\ DictGet(recA.rebecs, "a").messages # DictGet(recB.rebecs, "a").messages

(* C5: reflexivity: a state built by the reader, compared with itself (a    *)
(* second state with the same record), gives (True, 0).                      *)
C5_Reflexivity ==
    (Compared /\ recA = recB) => se_result = Returns(TRUE, 0)

(* C7: the two states have the same actors with the same locals and pc, no  *)
(* messages, and differ only in that the later state's clock and every      *)
(* finite resource are larger by the same d >= 0: the result is (True, d)   *)
(* in either argument order.                                                *)
ShiftedCopy(hi, lo, d) ==
    /\ hi.now.v = lo.now.v + d
    /\ Range(DictKeys(hi.rebecs)) = Range(DictKeys(lo.rebecs))
    /\ \A r \in Range(DictKeys(hi.rebecs)) :
          LET H == DictGet(hi.rebecs, r)
              L == DictGet(lo.rebecs, r)
          IN /\ H.vars = L.vars
             /\ H.pc = L.pc
             /\ H.messages = <<>> /\ L.messages = <<>>
             /\ IF L.res.t = "int" THEN H.res = PyInt(L.res.v + d)
                                   ELSE H.res = L.res

AllResFiniteOrAbsent(rec) ==
    \A r \in Range(DictKeys(rec.rebecs)) : ResOf(rec, r).t \in {"int", "none"}

C7_ShiftedCopyEquivalent ==
    \A d \in 0..MaxTime :
        (Compared /\ (ShiftedCopy(recA, recB, d) \/ ShiftedCopy(recB, recA, d))) =>
            /\ se_result = Returns(TRUE, d)
            /\ shift_equivalent(recB, recA) = Returns(TRUE, d)

(* C7 restricted to resources that are integers or absent *)
C7_WhenNoInfiniteResource ==
    \A d \in 0..MaxTime :
        (/\ Compared
         /\ AllResFiniteOrAbsent(recA) /\ AllResFiniteOrAbsent(recB)
         /\ (ShiftedCopy(recA, recB, d) \/ ShiftedCopy(recB, recA, d))) =>
            /\ se_result = Returns(TRUE, d)
            /\ shift_equivalent(recB, recA) = Returns(TRUE, d)

(* C8: for some actor exactly one of the two states has an absent or        *)
(* infinite resource and the other a finite one: the call returns           *)
(* (False, None), in either argument order, without raising.                *)
OneSidedResource ==
    \E r \in CommonActors :
        (ResOf(recA, r).t = "int") # (ResOf(recB, r).t = "int")

C8_OneSidedResourceIsFalse ==
    (Compared /\ OneSidedResource) =>
        /\ se_result = Returns(FALSE, None)
        /\ shift_equivalent(recB, recA) = Returns(FALSE, None)

(* C8 restricted to an absent resource on the one side *)
C8_WhenAbsentNotInfinite ==
    (/\ Compared
     /\ \E r \in CommonActors :
           \/ ResOf(recA, r).t = "int" /\ ResOf(recB, r).t = "none"
           \/ ResOf(recA, r).t = "none" /\ ResOf(recB, r).t = "int"
     /\ AllResFiniteOrAbsent(recA) /\ AllResFiniteOrAbsent(recB)) =>
        /\ se_result = Returns(FALSE, None)
        /\ shift_equivalent(recB, recA) = Returns(FALSE, None)

----------------------------------------------------------------------------
(* Claims about quotienting, over the run of SpecQuot *)
Merged == pc \in {"q_done", "q_second"} /\ status = "ok"

OutStateIds == {new_ts.state[i].id : i \in 1..Len(new_ts.state)}

RepIds == {SplitFirst(classes[i][1]) : i \in 1..Len(classes)}

(* C3: no dangling references: the source id and the target/destination id *)
(* of every written transition is the id of a written state.               *)
C3_NoDanglingReference ==
    Merged =>
        \A i \in 1..Len(new_ts.transition) :
            /\ new_ts.transition[i].source \in OutStateIds
            /\ TrTarget(new_ts.transition[i]) \in OutStateIds

(* C3 for graphs whose transitions all carry the destination attribute *)
C3_WhenDestinationAttribute ==
    (Merged /\ \A i \in 1..Len(ts_root.transition) :
                   ts_root.transition[i].target = NoId) =>
        \A i \in 1..Len(new_ts.transition) :
            /\ new_ts.transition[i].source \in OutStateIds
            /\ TrTarget(new_ts.transition[i]) \in OutStateIds

(* C6: idempotence: the script run on its own output, no two states of     *)
(* which are shift-equivalent, gives a graph with as many states and the   *)
(* same transitions up to a relabelling of the state ids.                  *)
RecordOf(st) == BuildShiftState(<<st>>, <<>>)[1].val

NoTwoEquivalent(states) ==
    \A i, j \in 1..Len(states) :
        i < j => shift_equivalent(RecordOf(states[i]), RecordOf(states[j]))
                    = Returns(FALSE, None)

Relabelled(tr, f) ==
    [tr EXCEPT !.source = f[@],
               !.target = IF @ # NoId THEN f[@] ELSE @,
               !.destination = IF @ # NoId THEN f[@] ELSE @]

SameUpToRelabelling(T1, T2) ==
    \E f \in [QIds -> QIds] :
        /\ \A x, y \in QIds : f[x] = f[y] => x = y
        /\ {Relabelled(T1[i], f) : i \in 1..Len(T1)} = Range(T2)
        /\ Len(T1) = Len(T2)

C6_Idempotent ==
    (pc = "q_second" /\ NoTwoEquivalent(new_ts.state)) =>
        /\ second.status = "ok"
        /\ Len(second.new_ts.state) = Len(new_ts.state)
        /\ SameUpToRelabelling(new_ts.transition, second.new_ts.transition)

DistinctIds(states) ==
    \A i, j \in 1..Len(states) : i < j => states[i].id # states[j].id

(* C6 for a first output that keeps a transition, has pairwise distinct    *)
(* state ids, and whose transitions all carry the destination attribute   *)
C6_WhenOutputWellFormed ==
    (/\ pc = "q_second"
     /\ NoTwoEquivalent(new_ts.state)
     /\ DistinctIds(new_ts.state)
     /\ new_ts.transition # <<>>
     /\ \A i \in 1..Len(new_ts.transition) :
            new_ts.transition[i].target = NoId) =>
        /\ second.status = "ok"
        /\ Len(second.new_ts.state) = Len(new_ts.state)
        /\ SameUpToRelabelling(new_ts.transition, second.new_ts.transition)

(* two states that are not equivalent, whose only transition names the    *)
(* ignored actor: the first output has both states and no transition      *)
C6_AllTransitionsDropped ==
    /\ pc = "q_second"
    /\ Len(new_ts.state) = 2
    /\ NoTwoEquivalent(new_ts.state)
    /\ DistinctIds(new_ts.state)
    /\ Len(ts_root.transition) = 1
    /\ new_ts.transition = <<>>

(* C10: no transition whose message-delivery payload names an ignored      *)
(* actor as sender or owner is in the written transition list.             *)
NamesIgnoredActor(tr) ==
    tr.ms.has /\ ("meaningless" \in {tr.ms.sender, tr.ms.owner})

C10_IgnoredPayloadDropped ==
    Merged => \A i \in 1..Len(new_ts.transition) :
                  ~NamesIgnoredActor(new_ts.transition[i])

(* an input transition naming the ignored actor as sender, between two    *)
(* representatives, besides a transition that is kept                     *)
C10_Witness ==
    /\ Merged
    /\ Len(new_ts.transition) = 1
    /\ \E i \in 1..Len(ts_root.transition) :
          /\ ts_root.transition[i].ms.sender = "meaningless"
          /\ ts_root.transition[i].source \in RepIds
          /\ ts_root.transition[i].destination \in RepIds

----------------------------------------------------------------------------
(* Claims about class construction and the merged state list.  The input  *)
(* states are "1_0" .. "n_0" in document order, so position i of          *)
(* ts_root.state is the state whose id in the input is StateId(i).        *)
ClassesBuilt == pc = "q_done" /\ status # "TypeError"

Compared2(i, j) ==
    shift_equivalent(DictGet(shift_state, StateId(i)),
                     DictGet(shift_state, StateId(j)))

Visible == {i \in 1..Len(ts_root.state) : DictHas(shift_state, StateId(i))}

MutuallyEquivalent(K) ==
    \A i, j \in K : i # j => Compared2(i, j).kind = "return" /\ Compared2(i, j).eq

(* a largest set of mutually equivalent states *)
MaximalEquivalent(K) ==
    /\ K \subseteq Visible
    /\ Cardinality(K) >= 2
    /\ MutuallyEquivalent(K)
    /\ \A i \in Visible \ K : ~MutuallyEquivalent(K \cup {i})

First(K) == CHOOSE i \in K : \A j \in K : i <= j

ClassIds(cls) == {SplitFirst(cls[i]) : i \in 1..Len(cls)}

C12_InputUnchanged ==
    [][(pc = "q_classes" /\ pc' = "q_done") => ts_root' = ts_root]_vars

(* the transitions of the input, at least, are never touched *)
C12_InputTransitionsUnchanged ==
    [][ts_root'.transition = ts_root.transition]_vars

(* C13: quotienting completes on every graph of the bounded family, which *)
(* includes a state with no non-ignored actor that a transition refers to *)
(* and graphs with states but no transition: the script never ends in an  *)
(* exception.                                                             *)
C13_QuotientNeverRaises ==
    pc = "q_done" => status = "ok"

(* the script completes when the graph has a transition and both ends of  *)
(* every transition that passes the ignore filter are states with a       *)
(* non-ignored actor                                                      *)
C13_WhenEndpointsVisible ==
    (/\ pc = "q_done"
     /\ ts_root.transition # <<>>
     /\ \A i \in 1..Len(ts_root.transition) :
           LET tr == ts_root.transition[i]
           IN ~TouchesIgnored(tr) =>
                 /\ DictHas(shift_state, tr.source)
                 /\ DictHas(shift_state, TrTarget(tr))) =>
        status = "ok"

(* accumulation of the empty graph returns the empty list *)
C13_AccumulatorOnEmptyGraph ==
    (pc = "acc_done" /\ lts.transitions = <<>>) => out = <<>>

----------------------------------------------------------------------------
(* state_set of the parsed graph: the initial state and every endpoint *)
StateSet ==
    {lts.initial} \cup {e[1] : e \in Range(lts.transitions)}
                  \cup {e[3] : e \in Range(lts.transitions)}

(* the time edges of the input form a cycle or a self-loop *)
RECURSIVE TimeReach(_, _)
TimeReach(S, E) ==
    LET nxt == {e[3] : e \in {x \in E : x[1] \in S}}
    IN IF nxt \subseteq S THEN S ELSE TimeReach(S \cup nxt, E)

HasTimeCycle ==
    LET E == TimeTriples(lts.transitions)
    IN \E e \in E : e[1] \in TimeReach({e[3]}, E)

PathsBounded ==
    \A k \in 1..Len(stack) :
        /\ Len(stack[k].deltas) <= Cardinality(StateSet)
        /\ Len(stack) <= Cardinality(StateSet)

(* C14: accumulate_time_edges returns on every input graph, time cycles   *)
(* and self-loops included, and no path of the search has more edges than *)
(* the graph has states.                                                  *)
C14_Terminates ==
    /\ []PathsBounded
    /\ <>(pc = "acc_done")

(* the search has returned on a graph whose time edges cycle through the  *)
(* initial state and leave the cycle                                      *)
C14_Witness ==
    /\ pc = "acc_done"
    /\ HasTimeCycle
    /\ \E e \in TimeTriples(lts.transitions) :
          e[1] = lts.initial /\ e[1] \in TimeReach({e[3]}, TimeTriples(lts.transitions))
    /\ \E i \in 1..Len(out) : IsTime(out[i][2]) # None

----------------------------------------------------------------------------
(* the rebecs of an input state that are not in the ignore set *)
VisiblePart(st) == SelectSeq(st.rebec, LAMBDA r : r.name \notin IGNORE_REBECS)

IgnoredPart(st) == SelectSeq(st.rebec, LAMBDA r : r.name \in IGNORE_REBECS)

AgreeOnVisible ==
    VisiblePart(ts_root.state[1]) = VisiblePart(ts_root.state[2])

DifferInIgnored ==
    IgnoredPart(ts_root.state[1]) # IgnoredPart(ts_root.state[2])

(* C15: two states with the same clock and the same non-ignored rebecs,   *)
(* whatever ignored rebecs they hold, compare as (True, 0).               *)
C15_IgnoredDataNoInfluence ==
    (Compared /\ AgreeOnVisible /\ DifferInIgnored) =>
        se_result = Returns(TRUE, 0)

(* C15 when no non-ignored rebec has the resource 'infinity' *)
C15_WhenNoInfiniteResource ==
    (/\ Compared
     /\ AgreeOnVisible
     /\ DifferInIgnored
     /\ \A i \in 1..Len(VisiblePart(ts_root.state[1])) :
           VisiblePart(ts_root.state[1])[i].res # StrInf) =>
        se_result = Returns(TRUE, 0)

(* the second state holds an ignored rebec with a queue, the first none *)
C15_DifferInIgnoredOnly ==
    /\ Compared
    /\ AgreeOnVisible
    /\ IgnoredPart(ts_root.state[1]) = <<>>
    /\ \E i \in 1..Len(ts_root.state[2].rebec) :
          /\ ts_root.state[2].rebec[i].name \in IGNORE_REBECS
          /\ ts_root.state[2].rebec[i].queue # <<>>
    /\ se_result = Returns(TRUE, 0)

----------------------------------------------------------------------------
RecOf(sid) == DictGet(shift_state, sid)

(* C16: any two members of a class built by class construction, not only  *)
(* a member and the representative, are shift-equivalent: the call on     *)
(* their records returns True, with the difference of their offsets.      *)
C16_ClassesPairwiseEquivalent ==
    \A c \in 1..Len(classes) :
        \A m1, m2 \in 1..Len(classes[c]) :
            LET r == shift_equivalent(RecOf(SplitFirst(classes[c][m1])),
                                      RecOf(SplitFirst(classes[c][m2])))
            IN m1 # m2 => /\ r.kind = "return"
                          /\ r.eq
                          /\ r.d >= 0

(* a class of three whose members are shifted from the representative by  *)
(* different offsets: the two later members are compared with each other  *)
(* by no call of the script                                               *)
C16_Witness ==
    /\ Len(classes) = 1
    /\ Len(classes[1]) = 3
    /\ classes[1][2].delta # classes[1][3].delta
    /\ classes[1][2].delta > 0
    /\ classes[1][3].delta > 0
    /\ \E r \in Range(RecOf(StateId(1)).rebecs) :
          r.val.res.t = "int" /\ r.val.bag_size = 1

IsEq(r) == r.kind = "return" /\ r.eq

(* the predicate is transitive on the records of the graph *)
C16_Transitive ==
    \A i, j, k \in 1..Len(shift_state) :
        (/\ IsEq(shift_equivalent(shift_state[i].val, shift_state[j].val))
         /\ IsEq(shift_equivalent(shift_state[j].val, shift_state[k].val))) =>
            IsEq(shift_equivalent(shift_state[i].val, shift_state[k].val))

----------------------------------------------------------------------------
(* the activation of dfs that is about to record an accumulated edge *)
Emitting(f) == time_out[f.node] = <<>> /\ f.node # f.start

NoRepeat(s) == \A i, j \in 1..Len(s) : i # j => s[i] # s[j]

(* C17: the path of time edges behind every accumulated edge visits no    *)
(* state twice, the entry state included, so that no weight of a time     *)
(* self-loop or cycle is part of an accumulated weight.                   *)
C17_PathsAreSimple ==
    \A k \in 1..Len(stack) :
        Emitting(stack[k]) => NoRepeat(stack[k].path_nodes)

HasTimeSelfLoop == \E e \in TimeTriples(lts.transitions) : e[1] = e[3]

(* C17 for graphs without a time self-loop *)
C17_WhenNoSelfLoop ==
    ~HasTimeSelfLoop =>
        \A k \in 1..Len(stack) : NoRepeat(stack[k].path_nodes)

(* a cycle of time edges through the entry is not followed back *)
C17_CycleThroughEntryPruned ==
    /\ pc = "acc_done"
    /\ ~HasTimeSelfLoop
    /\ HasTimeCycle
    /\ \E i \in 1..Len(out) : IsTime(out[i][2]) # None

----------------------------------------------------------------------------
(* Entry states as the specification defines them, from the input alone *)
AllEdges == {<<e[1], 0, e[3]>> : e \in Range(lts.transitions)}

RefReach == TimeReach({lts.initial}, AllEdges)

RefEntry(u) ==
    /\ u \in RefReach
    /\ \/ u = lts.initial
       \/ \E e \in Range(lts.transitions) :
             IsTime(e[2]) = None /\ e[3] = u /\ e[1] \in RefReach
       \/ ~\E e \in TimeTriples(lts.transitions) : e[3] = u

(* a state inside a chain: reachable, entered by time edges only *)
Interior(u) ==
    /\ u # lts.initial
    /\ \E e \in TimeTriples(lts.transitions) : e[3] = u
    /\ ~\E e \in Range(lts.transitions) :
           IsTime(e[2]) = None /\ e[3] = u /\ e[1] \in RefReach

(* C18: every accumulated time edge starts at an entry state: a reachable *)
(* state that is the initial state, or has an incoming non-time edge from *)
(* a reachable state, or has no incoming time edge; none starts inside a  *)
(* chain.                                                                 *)
C18_StartsAtEntry ==
    /\ \A t \in Range(new_time_edges_list) :
          RefEntry(t[1]) /\ ~Interior(t[1])
    /\ pc = "acc_done" =>
          \A t \in Range(AccumulatedOut) : RefEntry(t[1]) /\ ~Interior(t[1])

(* an accumulated edge from a state that is an entry through its incoming *)
(* non-time edge, over a reachable interior state with a time edge of its *)
(* own                                                                    *)
C18_Witness ==
    /\ pc = "acc_done"
    /\ \E t \in Range(AccumulatedOut) :
          /\ t[1] # lts.initial
          /\ t[2] = 3
    /\ \E e \in TimeTriples(lts.transitions) :
          Interior(e[1]) /\ e[1] \in RefReach

----------------------------------------------------------------------------
HasTimeOut(u) == \E e \in TimeTriples(lts.transitions) : e[1] = u

(* C19: every accumulated time edge ends at a terminal node: a state with *)
(* no outgoing time edge in the input, other than the edge's entry state; *)
(* a state with no outgoing time edge starts no accumulated edge.         *)
C19_EndsAtTerminal ==
    /\ \A t \in Range(new_time_edges_list) :
          ~HasTimeOut(t[3]) /\ t[3] # t[1] /\ HasTimeOut(t[1])
    /\ pc = "acc_done" =>
          \A t \in Range(AccumulatedOut) :
              ~HasTimeOut(t[3]) /\ t[3] # t[1] /\ HasTimeOut(t[1])

(* the initial state has no time edge and starts nothing, while a path of *)
(* two time edges from another entry passes a state that has a time edge  *)
(* and ends at one that has none                                          *)
C19_Witness ==
    /\ pc = "acc_done"
    /\ ~HasTimeOut(lts.initial)
    /\ \E t \in Range(AccumulatedOut) :
          /\ t[2] = 3
          /\ \E e \in TimeTriples(lts.transitions) :
                e[1] = t[1] /\ HasTimeOut(e[3])

----------------------------------------------------------------------------
(* C20: each accumulated triple (entry, sum, terminal) is in the returned *)
(* list at most once, and every triple dfs has found, whatever its sum,   *)
(* is in it.                                                              *)
C20_TriplesOnce ==
    /\ NoRepeat(new_time_edges_list)
    /\ Range(new_time_edges_list) = seen_triples
    /\ pc = "acc_done" =>
          /\ NoRepeat(AccumulatedOut)
          /\ Range(AccumulatedOut) = seen_triples
          /\ \A u \in Nodes, v \in Nodes :
                \A e \in TimeTriples(lts.transitions) :
                    (e[1] = u /\ e[3] = v /\ RefEntry(u) /\ ~HasTimeOut(v)) =>
                        e \in Range(AccumulatedOut)

(* two different paths with the same sum between the same states (one     *)
(* edge of weight 2, two edges of weight 1) give one accumulated edge     *)
C20_Witness ==
    /\ pc = "acc_done"
    /\ Len(lts.transitions) = 3
    /\ \E u, m, v \in Nodes :
          /\ u # m /\ m # v /\ u # v
          /\ {<<u, 1, m>>, <<m, 1, v>>, <<u, 2, v>>} = TimeTriples(lts.transitions)
          /\ AccumulatedOut = <<<<u, 2, v>>>>

(* two edges of different weight between the same states are both kept *)
C20_DifferentSumsKept ==
    /\ pc = "acc_done"
    /\ \E u, v \in Nodes :
          /\ <<u, 1, v>> \in Range(AccumulatedOut)
          /\ <<u, 2, v>> \in Range(AccumulatedOut)

----------------------------------------------------------------------------
(* the records obtained from rec by reordering the message list of one    *)
(* actor                                                                  *)
Reordered(msgs) ==
    {[i \in 1..Len(msgs) |-> msgs[p[i]]] :
        p \in {f \in [1..Len(msgs) -> 1..Len(msgs)] :
                  \A i, j \in 1..Len(msgs) : f[i] = f[j] => i = j}}

ReorderedRecs(rec) ==
    {[rec EXCEPT !.rebecs[n].val.messages = ms] :
        <<n, ms>> \in UNION {{<<n, ms>> : ms \in Reordered(rec.rebecs[n].val.messages)} :
                                n \in 1..Len(rec.rebecs)}}

(* a message key with its finite times moved by d *)
ShiftedTime(x, d) == IF x.t = "int" THEN PyInt(x.v + d) ELSE x

ShiftedKey(m, d) ==
    <<m.sid, m.rid, m.body, ShiftedTime(m.ar, d), ShiftedTime(m.dl, d)>>

Count(msgs, key, d) ==
    Cardinality({i \in 1..Len(msgs) : ShiftedKey(msgs[i], d) = key})

SameBag(later, earlier, d) ==
    \A key \in {ShiftedKey(later[i], 0) : i \in 1..Len(later)}
               \cup {ShiftedKey(earlier[i], d) : i \in 1..Len(earlier)} :
        Count(later, key, 0) = Count(earlier, key, d)

Later == IF recA.now.v >= recB.now.v THEN recA ELSE recB
Earlier == IF recA.now.v >= recB.now.v THEN recB ELSE recA

(* C21: the result is the same for every order of an actor's messages, in *)
(* either state, and it is True only if every actor's messages in the     *)
(* later state are, as a multiset of (sender, receiver, body, arrival,    *)
(* deadline), those of the earlier state with the finite times moved by   *)
(* the clock difference.                                                  *)
C21_MessagesAsMultiset ==
    Compared =>
        /\ \A A2 \in ReorderedRecs(recA) : shift_equivalent(A2, recB) = se_result
        /\ \A B2 \in ReorderedRecs(recB) : shift_equivalent(recA, B2) = se_result
        /\ (se_result.kind = "return" /\ se_result.eq) =>
              \A r \in Range(DictKeys(Later.rebecs)) :
                  SameBag(DictGet(Later.rebecs, r).messages,
                          DictGet(Earlier.rebecs, r).messages,
                          Later.now.v - Earlier.now.v)

(* both states hold the same two messages with different arrival times,   *)
(* in opposite orders                                                     *)
C21_Witness ==
    /\ Compared
    /\ se_result = Returns(TRUE, 0)
    /\ \E r \in Range(DictKeys(recA.rebecs)) :
          LET ma == DictGet(recA.rebecs, r).messages
              mb == DictGet(recB.rebecs, r).messages
          IN /\ Len(ma) = 2
             /\ ma[1].ar # ma[2].ar
             /\ ma[1] = mb[2]
             /\ ma[2] = mb[1]

(* the later state holds twice the message that the earlier state holds  *)
(* twice, its arrival moved by the clock difference, its deadline         *)
(* 'infinity' on both sides                                               *)
C21_ShiftedTwice ==
    /\ Compared
    /\ se_result = Returns(TRUE, 1)
    /\ \E r \in Range(DictKeys(recA.rebecs)) :
          LET ma == DictGet(recA.rebecs, r).messages
              mb == DictGet(recB.rebecs, r).messages
          IN /\ Len(ma) = 2 /\ Len(mb) = 2
             /\ ma[1].ar # mb[1].ar
             /\ ma[1].dl = StrInf


----------------------------------------------------------------------------
(* the loop of lines 413-427 has run to its end; ts_root is still the      *)
(* document that was read                                                  *)
ClassesComplete == pc = "q_classes" /\ ci > Len(shift_state)

PlacesOf(sid) ==
    {<<c, k>> \in (1..Len(classes)) \X (1..MaxStates) :
        k <= Len(classes[c]) /\ SplitFirst(classes[c][k]) = sid}

PositionOf(sid) == CHOOSE i \in 1..Len(ts_root.state) : ts_root.state[i].id = sid

RepresentativeIsEarliest ==
    \A c \in 1..Len(classes) :
        /\ Len(classes[c]) >= 1
        /\ \A k \in 1..Len(classes[c]) :
              PositionOf(SplitFirst(classes[c][1]))
                  <= PositionOf(SplitFirst(classes[c][k]))

(* C22: class construction gives a partition of the states of the graph:  *)
(* every state id of the document is in exactly one class, no class is    *)
(* empty, and the representative of a class is its earliest member.       *)
C22_ClassesPartitionStates ==
    ClassesComplete =>
        /\ \A i \in 1..Len(ts_root.state) :
              Cardinality(PlacesOf(ts_root.state[i].id)) = 1
        /\ RepresentativeIsEarliest

(* the same for the states that have a rebec outside IGNORE_REBECS, the   *)
(* keys of shift_state: these are partitioned, and no other id is in a    *)
(* class                                                                  *)
C22_VisibleStatesPartitioned ==
    ClassesComplete =>
        /\ \A i \in 1..Len(ts_root.state) :
              Cardinality(PlacesOf(ts_root.state[i].id))
                  = IF DictHas(shift_state, ts_root.state[i].id) THEN 1 ELSE 0
        /\ RepresentativeIsEarliest

(* three states, the second with ignored rebecs only, the third a shifted *)
(* copy of the first: one class of two, the second state in no class      *)
C22_StateOutsideEveryClass ==
    /\ ClassesComplete
    /\ Len(ts_root.state) = 3
    /\ Len(classes) = 1
    /\ Len(classes[1]) = 2
    /\ PlacesOf(StateId(2)) = {}


----------------------------------------------------------------------------
(* Inputs of SpecDup: the quotient on at most DupStates states and up to  *)
(* DupTrans transitions that differ in their '@label' too, so that        *)
(* several transitions resolve to one (source, target, label) key; a      *)
(* transition may lack its source or its target attribute.                *)
DupStates == 2
DupTrans == 3

DupBodies ==
    {<<RawRebec("a", 0, "p", NumStr(0), [x |-> "0"], <<>>)>>,
     <<RawRebec("a", 1, "p", NumStr(1), [x |-> "0"], <<>>)>>,
     <<RawRebec("a", 1, "p", NumStr(0), [x |-> "0"], <<>>)>>}

DupIds == {StateId(i) : i \in 1..DupStates}

(* lines 244-246: lbl is '@label' when the transition has one, else ''    *)
Labelled(tr, lbl) == [tr EXCEPT !.label = lbl]

DupTransChoices ==
    {Labelled(DestTr(s, t, ms), lbl) :
        s \in DupIds, t \in DupIds,
        ms \in {NoMs, Ms("meaningless", "a")}, lbl \in {"", "x"}}
    \cup {TargetTr(s, t, NoMs) : s \in DupIds, t \in DupIds}
    \cup {DestTr(NoId, StateId(1), NoMs), DestTr(StateId(1), NoId, NoMs)}

InitDup ==
    /\ pc = "q_start"
    /\ \E n \in 1..DupStates, m \in 0..DupTrans :
          \E bodies \in [1..n -> DupBodies], trs \in [1..m -> DupTransChoices] :
              ts_root = [state |-> [i \in 1..n |->
                                       [id |-> StateId(i), rebec |-> bodies[i]]],
                         transition |-> trs]
    /\ shift_state = <<>>
    /\ se_result = NoResult
    /\ QuotIdle
    /\ AccIdle

SpecDup == InitDup /\ [][NextQuot]_vars

----------------------------------------------------------------------------
(* Claims about the transitions that the merge writes.  The transitions   *)
(* of ts_root are not changed by the merge (the written ones are copies). *)
InTrans == ts_root.transition

RepMap == BuildRepMap(classes, <<>>)

(* not dropped by lines 229-235 nor by lines 248-250 *)
Kept(i) ==
    /\ ~TouchesIgnored(InTrans[i])
    /\ InTrans[i].source # NoId
    /\ TrTarget(InTrans[i]) # NoId

ResolvedKey(i) ==
    <<DictGet(RepMap, InTrans[i].source),
      DictGet(RepMap, TrTarget(InTrans[i])),
      InTrans[i].label>>

(* the first transition, in input order, of every resolved key *)
FirstOfKey ==
    {i \in 1..Len(InTrans) :
        Kept(i) /\ \A j \in 1..(i - 1) : Kept(j) => ResolvedKey(j) # ResolvedKey(i)}

OutTrans == new_ts.transition

OutKey(j) == <<OutTrans[j].source, TrTarget(OutTrans[j]), OutTrans[j].label>>

(* the written transition j is a copy of the input transition i: same     *)
(* message server, same label, same attribute for its target              *)
CopyOf(j, i) ==
    /\ OutTrans[j].ms = InTrans[i].ms
    /\ OutTrans[j].label = InTrans[i].label
    /\ (OutTrans[j].target = NoId) = (InTrans[i].target = NoId)
    /\ (OutTrans[j].destination = NoId) = (InTrans[i].destination = NoId)

SurvivorsAreFirst ==
    /\ Len(OutTrans) = Cardinality(FirstOfKey)
    /\ \A j \in 1..Len(OutTrans) :
          \E i \in FirstOfKey :
              /\ Cardinality({h \in FirstOfKey : h <= i}) = j
              /\ CopyOf(j, i)

(* C23: the written transitions are pairwise different in (source,        *)
(* target, label), and the one written for a key is the copy of the first *)
(* input transition, among those not dropped, that resolves to the key.   *)
C23_NoDuplicateTransitions ==
    Merged =>
        /\ \A i, j \in 1..Len(OutTrans) : i # j => OutKey(i) # OutKey(j)
        /\ SurvivorsAreFirst

(* the keys under which the loop of lines 225-277 stores are pairwise     *)
(* different and the stored copies are those of the first transitions     *)
C23_FirstOfEveryKeySurvives ==
    Merged =>
        /\ SurvivorsAreFirst
        /\ LET rw == RewireLoop(InTrans, 1, RepMap, <<>>)
           IN /\ \A i, j \in 1..Len(rw.uniq) :
                    i # j => rw.uniq[i].k # rw.uniq[j].k
              /\ \A i \in 1..Len(rw.uniq) :
                    rw.uniq[i].k = <<rw.uniq[i].val.source,
                                     TrTarget(rw.uniq[i].val),
                                     rw.uniq[i].val.label>>

(* with '@destination' in every transition the written transitions are    *)
(* pairwise different                                                     *)
C23_WhenDestinationAttribute ==
    (Merged /\ \A i \in 1..Len(InTrans) : InTrans[i].target = NoId) =>
        \A i, j \in 1..Len(OutTrans) : i # j => OutKey(i) # OutKey(j)

(* three transitions: the first dropped for its message server, the       *)
(* second and third with one key and different attributes; the second is  *)
(* written                                                                *)
C23_SecondOfThreeSurvives ==
    /\ Merged
    /\ Len(InTrans) = 3
    /\ ~Kept(1) /\ Kept(2) /\ Kept(3)
    /\ ResolvedKey(2) = ResolvedKey(3)
    /\ InTrans[2].source # InTrans[3].source
    /\ InTrans[2].target # NoId
    /\ InTrans[3].target = NoId
    /\ Len(OutTrans) = 1
    /\ OutTrans[1].target # NoId


----------------------------------------------------------------------------
(* the call of merge_shift_equivalent has ended, by return or by raising  *)
MergeEnded == pc \in {"q_done", "q_second"} /\ status \in {"ok", "KeyError"}

(* a transition that reaches line 252 with an id that is no key of rep_map *)
UnknownEndpoint(i) ==
    /\ Kept(i)
    /\ \/ ~DictHas(RepMap, InTrans[i].source)
       \/ ~DictHas(RepMap, TrTarget(InTrans[i]))

(* C24: a transition whose source or target id is no key of rep_map is    *)
(* discarded, the other transitions are still processed and the merge     *)
(* does not fail.                                                         *)
C24_UnknownEndpointDiscarded ==
    (MergeEnded /\ \E i \in 1..Len(InTrans) : UnknownEndpoint(i)) =>
        /\ status = "ok"
        /\ Len(OutTrans)
              = Cardinality({i \in FirstOfKey : ~UnknownEndpoint(i)})

(* with such a transition the merge raises KeyError and writes nothing    *)
C24_UnknownEndpointRaises ==
    (MergeEnded /\ \E i \in 1..Len(InTrans) : UnknownEndpoint(i)) =>
        status = "KeyError" /\ new_ts = EmptyTs

(* a transition without its source or its target attribute is skipped     *)
(* (lines 248-250) and the others are processed                           *)
C24_MissingAttributeSkipped ==
    (MergeEnded /\ \A i \in 1..Len(InTrans) : ~UnknownEndpoint(i)) =>
        \/ InTrans = <<>> /\ status = "KeyError"
        \/ status = "ok" /\ SurvivorsAreFirst

C24_SkippedAndProcessed ==
    /\ Merged
    /\ Len(InTrans) = 3
    /\ InTrans[1].source = NoId
    /\ TrTarget(InTrans[2]) = NoId
    /\ Kept(3)
    /\ Len(OutTrans) = 1

(* one state "1_0" and the transitions 1_0 -> 2_0, 1_0 -> 1_0: the id    *)
(* "2_0" is no key of rep_map and the merge raises                        *)
C24_RaisedOnUnknownId ==
    /\ MergeEnded
    /\ status = "KeyError"
    /\ Len(ts_root.state) = 1
    /\ Len(InTrans) = 2
    /\ UnknownEndpoint(1)
    /\ Kept(2) /\ ~UnknownEndpoint(2)


----------------------------------------------------------------------------
(* Claims about renumbering.  Survivors are the transitions stored by the *)
(* loop of lines 225-277, with their endpoints resolved and not yet       *)
(* renumbered; written state j is the representative of class j.          *)
Survivors ==
    LET rw == RewireLoop(InTrans, 1, RepMap, <<>>)
    IN [i \in 1..Len(rw.uniq) |-> rw.uniq[i].val]

SurvivorEndpoints ==
    {Survivors[i].source : i \in 1..Len(Survivors)}
        \cup {TrTarget(Survivors[i]) : i \in 1..Len(Survivors)}

(* the i-th endpoint id in sorted order goes to "i_0" *)
CanonicalId(id) ==
    LET sorted == SortedIds(SurvivorEndpoints)
    IN IF id \in SurvivorEndpoints
       THEN StateId(CHOOSE i \in 1..Len(sorted) : sorted[i] = id)
       ELSE id

RepOfWritten(j) == SplitFirst(classes[j][1])

(* C25: renumbering sends the endpoint ids of the surviving transitions,  *)
(* in sorted order, one-to-one to "1_0" .. "k_0", and the same map is     *)
(* applied to the ids of the written states and to the source and the     *)
(* target or destination of every written transition.                     *)
C25_RenumberingAppliedEverywhere ==
    Merged =>
        /\ Len(OutTrans) = Len(Survivors)
        /\ \A i \in 1..Len(OutTrans) :
              /\ OutTrans[i].source = CanonicalId(Survivors[i].source)
              /\ TrTarget(OutTrans[i]) = CanonicalId(TrTarget(Survivors[i]))
        /\ Len(new_ts.state) = Len(classes)
        /\ \A j \in 1..Len(new_ts.state) :
              new_ts.state[j].id = CanonicalId(RepOfWritten(j))
        /\ {CanonicalId(id) : id \in SurvivorEndpoints}
              = {StateId(i) : i \in 1..Cardinality(SurvivorEndpoints)}

(* the same for graphs whose transitions all carry '@destination' *)
C25_WhenDestinationAttribute ==
    (Merged /\ \A i \in 1..Len(InTrans) : InTrans[i].target = NoId) =>
        /\ Len(OutTrans) = Len(Survivors)
        /\ \A i \in 1..Len(OutTrans) :
              /\ OutTrans[i].source = CanonicalId(Survivors[i].source)
              /\ TrTarget(OutTrans[i]) = CanonicalId(TrTarget(Survivors[i]))
        /\ Len(new_ts.state) = Len(classes)
        /\ \A j \in 1..Len(new_ts.state) :
              new_ts.state[j].id = CanonicalId(RepOfWritten(j))
        /\ {CanonicalId(id) : id \in SurvivorEndpoints}
              = {StateId(i) : i \in 1..Cardinality(SurvivorEndpoints)}

(* what is renumbered with '@target': the source only, the id in          *)
(* '@target' stays as it was                                              *)
C25_TargetAttributeKept ==
    Merged =>
        \A i \in 1..Len(OutTrans) :
            OutTrans[i].target # NoId => OutTrans[i].target = Survivors[i].target

(* two states that are not equivalent and the one transition 2_0 -> 2_0   *)
(* with '@destination': written as 1_0 -> 1_0                             *)
C25_DestinationRenumbered ==
    /\ Merged
    /\ Len(classes) = 2
    /\ Len(InTrans) = 1
    /\ InTrans[1] = DestTr(StateId(2), StateId(2), NoMs)
    /\ OutTrans[1] = DestTr(StateId(1), StateId(1), NoMs)

(* the same with '@target': written as 1_0 -> 2_0 *)
C25_TargetNotRenumbered ==
    /\ Merged
    /\ Len(classes) = 2
    /\ Len(InTrans) = 1
    /\ InTrans[1] = TargetTr(StateId(2), StateId(2), NoMs)
    /\ OutTrans[1] = TargetTr(StateId(1), StateId(2), NoMs)


----------------------------------------------------------------------------
(* the input states are "1_0" .. "n_0" in document order *)
PositionOfRep(j) == RepOfWritten(j)[1]

(* a representative that is an endpoint of no surviving transition *)
Isolated(j) == RepOfWritten(j) \notin SurvivorEndpoints

(* C26: an isolated representative is not renumbered and is not in the    *)
(* state list of the renumbered output.                                   *)
C26_IsolatedStateDropped ==
    Merged =>
        /\ Len(new_ts.state)
              = Cardinality({j \in 1..Len(classes) : ~Isolated(j)})
        /\ \A j \in 1..Len(classes) :
              Isolated(j) =>
                  \A h \in 1..Len(new_ts.state) :
                      new_ts.state[h].rebec
                          # ts_root.state[PositionOfRep(j)].rebec

(* what the code does: every representative is written, the isolated ones *)
(* with the id they had                                                   *)
C26_IsolatedStateKept ==
    Merged =>
        /\ Len(new_ts.state) = Len(classes)
        /\ \A j \in 1..Len(classes) :
              /\ new_ts.state[j].rebec = ts_root.state[PositionOfRep(j)].rebec
              /\ Isolated(j) /\ (\A i \in 1..Len(InTrans) : InTrans[i].target = NoId)
                     => new_ts.state[j].id = RepOfWritten(j)

(* states 1_0 and 2_0, not equivalent, and the transition 1_0 -> 1_0:     *)
(* state 2_0 is isolated and is written with the id 2_0                   *)
C26_IsolatedStateWritten ==
    /\ Merged
    /\ Len(classes) = 2
    /\ InTrans = <<DestTr(StateId(1), StateId(1), NoMs)>>
    /\ Isolated(2)
    /\ Len(new_ts.state) = 2
    /\ new_ts.state[2].id = StateId(2)


----------------------------------------------------------------------------
(* C29: after the merge the ids of the written states are pairwise        *)
(* different: an id "n_0" given by renumbering is not the id of another   *)
(* written state, one that kept its id included.                          *)
C29_WrittenIdsDistinct ==
    Merged => DistinctIds(new_ts.state)

(* the ids are pairwise different when every representative is an         *)
(* endpoint of a surviving transition and every transition carries        *)
(* '@destination'                                                         *)
C29_WhenNoStateKeepsItsId ==
    (/\ Merged
     /\ \A j \in 1..Len(classes) : ~Isolated(j)
     /\ \A i \in 1..Len(InTrans) : InTrans[i].target = NoId) =>
        DistinctIds(new_ts.state)

(* states 1_0 and 2_0, not equivalent, and the transition 2_0 -> 2_0:     *)
(* 2_0 becomes 1_0, the isolated 1_0 keeps its id                         *)
C29_TwoStatesWithOneId ==
    /\ Merged
    /\ Len(classes) = 2
    /\ InTrans = <<DestTr(StateId(2), StateId(2), NoMs)>>
    /\ Isolated(1)
    /\ new_ts.state[1].id = StateId(1)
    /\ new_ts.state[2].id = StateId(1)
    /\ new_ts.state[1].rebec # new_ts.state[2].rebec


----------------------------------------------------------------------------
(* the cycle-free paths of time edges of the input, as the sequence of    *)
(* their states and the sum of their weights; k more edges are appended   *)
RECURSIVE SimpleTimePaths(_, _)
SimpleTimePaths(P, k) ==
    IF k = 0 THEN P
    ELSE SimpleTimePaths(
             P \cup {[nodes |-> Append(q[1].nodes, q[2][3]),
                      w |-> q[1].w + q[2][2]] :
                        q \in {r \in P \X TimeTriples(lts.transitions) :
                                  /\ r[1].nodes[Len(r[1].nodes)] = r[2][1]
                                  /\ r[2][3] \notin Range(r[1].nodes)}},
             k - 1)

InputSimplePaths ==
    SimpleTimePaths({[nodes |-> <<e[1], e[3]>>, w |-> e[2]] :
                        e \in {x \in TimeTriples(lts.transitions) : x[1] # x[3]}},
                    Len(lts.transitions))

(* C27: completeness: for every entry state u and every cycle-free path   *)
(* of time edges from u to a state v without outgoing time edge, of total *)
(* weight w, the returned list has the edge (u, 'time +=w', v).           *)
C27_Completeness ==
    pc = "acc_done" =>
        \A p \in InputSimplePaths :
            LET u == p.nodes[1]
                v == p.nodes[Len(p.nodes)]
            IN (RefEntry(u) /\ ~HasTimeOut(v)) =>
                   /\ <<u, FormatTime(p.w), v>> \in Range(out)
                   /\ <<u, p.w, v>> \in Range(AccumulatedOut)

(* an entry with two time edges, one to a terminal state and one to a     *)
(* state from which a second time edge leads to the terminal state: both  *)
(* sums are in the returned list                                          *)
C27_Witness ==
    /\ pc = "acc_done"
    /\ \E p, q \in InputSimplePaths :
          /\ p.nodes[1] = q.nodes[1]
          /\ RefEntry(p.nodes[1])
          /\ Len(p.nodes) = 2 /\ Len(q.nodes) = 3
          /\ p.nodes[2] = q.nodes[3]
          /\ ~HasTimeOut(p.nodes[2])
          /\ p.w # q.w
          /\ <<p.nodes[1], p.w, p.nodes[2]>> \in Range(AccumulatedOut)
          /\ <<q.nodes[1], q.w, q.nodes[3]>> \in Range(AccumulatedOut)


----------------------------------------------------------------------------
(* the states reachable from the initial state in the returned list *)
OutReach == TimeReach({lts.initial}, {<<e[1], 0, e[3]>> : e \in Range(out)})

(* the reachable sources of the non-time transitions of the input *)
NonTimeSources ==
    {e[1] : e \in {x \in Range(lts.transitions) :
                      IsTime(x[2]) = None /\ x[1] \in RefReach}}

HasTimeIn(u) == \E e \in TimeTriples(lts.transitions) : e[3] = u

(* C28: accumulation keeps the non-time behaviour reachable: the source   *)
(* of every non-time transition that is reachable from the initial state  *)
(* in the input is reachable from it in the returned list.                *)
C28_NonTimeSourcesStayReachable ==
    pc = "acc_done" => NonTimeSources \subseteq OutReach

(* the same when no source of a non-time transition lies inside a chain,  *)
(* between an incoming and an outgoing time edge                          *)
C28_WhenSourcesOutsideChains ==
    (/\ pc = "acc_done"
     /\ \A u \in NonTimeSources : ~(HasTimeIn(u) /\ HasTimeOut(u))) =>
        NonTimeSources \subseteq OutReach

(* A -time-> B -time-> C and B -a-> C: the returned list is               *)
(* [B -a-> C, A -time+=3-> C], in which B is not reachable from A         *)
C28_InteriorSourceCutOff ==
    /\ pc = "acc_done"
    /\ lts.transitions = <<<<"A", TimeLabel("spaced", 1), "B">>,
                           <<"B", TimeLabel("upper", 2), "C">>,
                           <<"B", OtherLabel("a"), "C">>>>
    /\ out = <<<<"B", OtherLabel("a"), "C">>, <<"A", FormatTime(3), "C">>>>
    /\ "B" \in NonTimeSources \ OutReach


----------------------------------------------------------------------------
(* the returned list of the run is the value of the function *)
OutIsFunctionValue ==
    pc = "acc_done" => out = accumulate_time_edges(lts)

(* the function applied to its own result, with the same initial state *)
OutAgain ==
    accumulate_time_edges([initial |-> lts.initial, transitions |-> out])

(* C30: accumulation is idempotent: accumulate_time_edges applied, with   *)
(* the same initial state, to the list it returned gives that list again. *)
C30_Idempotent ==
    pc = "acc_done" => OutAgain = out

(* the same when every entry state of the input is still reachable from   *)
(* the initial state in the returned list                                 *)
C30_WhenEntriesStayReachable ==
    (pc = "acc_done" /\ Range(entries) \subseteq OutReach) => OutAgain = out

(* the second application loses only accumulated edges, those of entries  *)
(* that are no longer reachable                                           *)
C30_SecondRunDropsUnreachable ==
    pc = "acc_done" =>
        OutAgain = SelectSeq(out, LAMBDA e : IsTime(e[2]) = None
                                                \/ e[1] \in OutReach)

(* A -time-> B -time-> C and B -a-> B: the list [B -a-> B,                *)
(* A -time+=2-> C, B -time+=1-> C] is returned, and from it               *)
(* [B -a-> B, A -time+=2-> C]                                             *)
C30_SecondRunDiffers ==
    /\ pc = "acc_done"
    /\ lts.transitions = <<<<"A", TimeLabel("spaced", 1), "B">>,
                           <<"B", TimeLabel("spaced", 1), "C">>,
                           <<"B", OtherLabel("a"), "B">>>>
    /\ out = <<<<"B", OtherLabel("a"), "B">>, <<"A", FormatTime(2), "C">>,
               <<"B", FormatTime(1), "C">>>>
    /\ OutAgain = <<<<"B", OtherLabel("a"), "B">>, <<"A", FormatTime(2), "C">>>>

(* a list with accumulated edges that is returned again unchanged *)
C30_SecondRunSame ==
    /\ pc = "acc_done"
    /\ Len(AccumulatedOut) >= 2
    /\ \E t \in Range(AccumulatedOut) : t[2] = 3
    /\ OutAgain = out

====
